---- MODULE Spec2Model ----
(***************************************************************************)
(* Model of run_integrated_simulation (src/app.py): the hour-by-hour       *)
(* dispatch of a data-centre IT load, its cooling overhead, a battery      *)
(* (ESS) and grid trading under a price signal (SMP).                      *)
(*                                                                         *)
(* Numbers.  The program computes in floating point.  The model computes   *)
(* exactly, in integers: every power and energy is in units of 0.01 kW     *)
(* (0.01 kWh), every PUE in tenths, every price in whole won per kWh.  The *)
(* diurnal sinusoids are tabulated: 10*sin(t*pi/12) rounded to 0.1 kW and  *)
(* 50*cos(t*pi/12) rounded to 1 won, so that processed load times          *)
(* (pue - 1) is exact.  Rounding error of the floating-point arithmetic is *)
(* therefore outside the model.                                            *)
(*                                                                         *)
(* Random draws.  smp is built from sim_hours independent draws of randn   *)
(* before the loop; as the draws are independent and hour t reads only     *)
(* smp[t], the model makes the draw of hour t when hour t reads it and     *)
(* appends it to smp.  A draw is 0 or a member of NoiseSet, and at most    *)
(* MaxNoisy hours of a run draw a non-zero noise.                          *)
(***************************************************************************)
EXTENDS Integers, Sequences, FiniteSets, TLC

VARIABLES
    params,                    \* the configuration dict passed to the function
    pc,                        \* "start", "loop", "returned" or "error"
    t,                         \* loop variable of line 45
    noisy_left,                \* non-zero randn draws the environment may still make
    smp,                       \* prices of the hours executed so far
    base_it_load,              \* line 25
    deferrable_load_schedule,  \* lines 26-29
    deferred_bank,             \* line 34
    soc_log,                   \* line 37
    total_cost_log,            \* line 39
    grid_power_log,            \* line 38
    dc_total_load_log,         \* line 33
    pue_log,                   \* line 33
    it_load_processed_log,     \* line 33
    actions_log,               \* line 42
    results_df,                \* the returned table, a record of columns
    remaining_deferred_load    \* the returned scalar

vars == <<params, pc, t, noisy_left, smp, base_it_load, deferrable_load_schedule,
          deferred_bank, soc_log, total_cost_log, grid_power_log,
          dc_total_load_log, pue_log, it_load_processed_log, actions_log,
          results_df, remaining_deferred_load>>

\* ---------------------------------------------------------------- bounds
\* longest horizon of the hourly runs
MaxHours == 18
\* hours of one run whose randn draw is not 0
MaxNoisy == 1
\* longest horizon, in days, of the multi-day runs
MaxDays == 3

\* ---------------------------------------------------------------- helpers
Min(a, b) == IF a <= b THEN a ELSE b

Max(a, b) == IF a >= b THEN a ELSE b

\* Min3 that ignores its second argument
Min3WithoutSecond(a, b, c) == Min(a, c)

Min3(a, b, c) == Min(a, Min(b, c))

Last(s) == s[Len(s)]

\* DropLast that drops nothing
DropNothing(s) == s

\* s[:-1]
DropLast(s) == SubSeq(s, 1, Len(s) - 1)

\* 10 * sin(h * pi / 12) in units of 0.01 kW, rounded to 0.1 kW
Sin10 ==
    <<0, 260, 500, 710, 870, 970, 1000, 970, 870, 710, 500, 260,
      0, -260, -500, -710, -870, -970, -1000, -970, -870, -710, -500, -260>>

\* 50 * cos(h * pi / 12) in won, rounded
Cos50 ==
    <<50, 48, 43, 35, 25, 13, 0, -13, -25, -35, -43, -48,
      -50, -48, -43, -35, -25, -13, 0, 13, 25, 35, 43, 48>>

\* values of 5 * randn the environment may draw besides 0
NoiseSet == {-60, -8, 8}

NoiseDraws(left) == IF left > 0 THEN NoiseSet \cup {0} ELSE {0}

\* the price floor of np.maximum(smp, 20)
SmpFloor == 20

\* smp[hour] for a given draw of the noise
SmpAt(hour, noise) == Max(100 - Cos50[(hour % 24) + 1] + noise, SmpFloor)

\* base_it_load[hour]
BaseLoadAt(p, hour) == p.base_it_load_kw + Sin10[(hour % 24) + 1]

\* deferrable_load_schedule[hour] after the two slice assignments; a slice
\* assignment past the end of the array assigns nothing
ScheduleAt(p, hour) ==
    IF (13 <= hour /\ hour < 17) \/ (13 + 24 <= hour /\ hour < 17 + 24)
    THEN p.deferrable_load_kw
    ELSE 0

\* ---------------------------------------------------------------- policy
\* CostSaving tested against the sell threshold
CostSavingBySell(p, current_smp) == current_smp > p.sell_threshold

\* CostSaving with the comparison reversed
CostSavingBelow(p, current_smp) == current_smp < p.cost_saving_threshold

\* the test of policy 1
CostSaving(p, current_smp) == current_smp > p.cost_saving_threshold

\* the test of policy 2
HighPerformance(p, current_smp, bank) ==
    current_smp < p.buy_threshold /\ bank > 0

\* ProcessedFromBank without the clamp to the backlog
ProcessedFromBankNoMin(bank, processable_load) == processable_load

\* processed_from_bank of policies 2 and 3
ProcessedFromBank(bank, processable_load) == Min(bank, processable_load)

\* LoadPolicy whose normal mode leaves the backlog alone
LoadPolicyDrainOnlyHighPerformance(p, current_smp, bank, base) ==
    IF CostSaving(p, current_smp)
    THEN [action |-> "cost_saving", pue |-> p.pue_eco,
          processed_it_load |-> base, deferred_bank |-> bank]
    ELSE IF HighPerformance(p, current_smp, bank)
    THEN LET processable_load == p.max_process_power - base
             processed_from_bank == ProcessedFromBank(bank, processable_load)
         IN  [action |-> "high_performance", pue |-> p.pue_normal,
              processed_it_load |-> base + processed_from_bank,
              deferred_bank |-> bank - processed_from_bank]
    ELSE [action |-> "normal", pue |-> p.pue_normal,
          processed_it_load |-> base, deferred_bank |-> bank]

\* lines 50-79: bank is deferred_bank after the hour's arrival was added
LoadPolicy(p, current_smp, bank, base) ==
    IF CostSaving(p, current_smp)
    THEN [action |-> "cost_saving", pue |-> p.pue_eco,
          processed_it_load |-> base, deferred_bank |-> bank]
    ELSE LET processable_load == p.max_process_power - base
             processed_from_bank == ProcessedFromBank(bank, processable_load)
         IN  [action |-> IF HighPerformance(p, current_smp, bank)
                         THEN "high_performance" ELSE "normal",
              pue |-> p.pue_normal,
              processed_it_load |-> base + processed_from_bank,
              deferred_bank |-> bank - processed_from_bank]

\* DcTotalLoad that leaves the IT load out of the sum
DcTotalLoadCoolingOnly(processed_it_load, pue) ==
    (processed_it_load * (pue - 10)) \div 10

\* lines 82-83, pue in tenths: processed_it_load + processed_it_load * (pue - 1)
DcTotalLoad(processed_it_load, pue) ==
    processed_it_load + (processed_it_load * (pue - 10)) \div 10

\* ChargeAmount without the clamp to the remaining headroom
ChargeAmountNoHeadroom(p, current_soc) == p.max_power_kw

\* charge_amount of the charge branch
ChargeAmount(p, current_soc) ==
    Min(p.max_power_kw, p.ess_capacity_kwh - current_soc)

\* PowerSource with the charge test ahead of the sell test
PowerSourceChargeFirst(p, current_smp, current_soc, power_needed) ==
    IF current_smp < p.buy_threshold /\ current_soc < p.ess_capacity_kwh
    THEN LET charge_amount == ChargeAmount(p, current_soc)
         IN  [branch |-> "charge", soc_change |-> charge_amount,
              power_from_grid |-> power_needed + charge_amount]
    ELSE IF current_smp > p.sell_threshold /\ current_soc > 0
    THEN LET power_from_ess == Min(current_soc, p.max_power_kw)
         IN  [branch |-> "sell", soc_change |-> -power_from_ess,
              power_from_grid |-> power_needed - power_from_ess]
    ELSE LET power_from_ess == Min3(current_soc, power_needed, p.max_power_kw)
         IN  [branch |-> "serve", soc_change |-> -power_from_ess,
              power_from_grid |-> power_needed - power_from_ess]

\* lines 89-102
PowerSource(p, current_smp, current_soc, power_needed) ==
    IF current_smp > p.sell_threshold /\ current_soc > 0
    THEN LET power_from_ess == Min(current_soc, p.max_power_kw)
         IN  [branch |-> "sell", soc_change |-> -power_from_ess,
              power_from_grid |-> power_needed - power_from_ess]
    ELSE IF current_smp < p.buy_threshold /\ current_soc < p.ess_capacity_kwh
    THEN LET charge_amount == ChargeAmount(p, current_soc)
         IN  [branch |-> "charge", soc_change |-> charge_amount,
              power_from_grid |-> power_needed + charge_amount]
    ELSE LET power_from_ess == Min3(current_soc, power_needed, p.max_power_kw)
         IN  [branch |-> "serve", soc_change |-> -power_from_ess,
              power_from_grid |-> power_needed - power_from_ess]

\* CostOfHour without the export revenue
CostOfHourImportOnly(power_from_grid, current_smp) ==
    Max(0, power_from_grid) * current_smp

\* line 107: the amount added to the cumulative cost
CostOfHour(power_from_grid, current_smp) ==
    Max(0, power_from_grid) * current_smp - Max(0, -power_from_grid) * current_smp

\* ---------------------------------------------------------------- inputs
\* (base_it_load_kw, deferrable_load_kw, max_process_power)
LoadSet == {<<10000, 8000, 25000>>, <<10000, 0, 10000>>, <<500, 0, 10000>>}

\* (ess_capacity_kwh, max_power_kw)
EssSet == {<<20000, 5000>>, <<10000, 10000>>}

\* (buy_threshold, sell_threshold, cost_saving_threshold)
ThresholdSet == {<<70, 140, 130>>, <<1000, 1000, 130>>, <<70, 140, 0>>}

MakeParams(h, l, e, u, th) ==
    [sim_hours |-> h,
     base_it_load_kw |-> l[1], deferrable_load_kw |-> l[2],
     max_process_power |-> l[3],
     pue_normal |-> u[1], pue_eco |-> u[2],
     ess_capacity_kwh |-> e[1], max_power_kw |-> e[2],
     buy_threshold |-> th[1], sell_threshold |-> th[2],
     cost_saving_threshold |-> th[3]]

\* (ESS, PUE) pairs outside the documented domain: no capacity, no rate,
\* economy PUE below normal PUE
OutOfDomainSet ==
    {<<<<0, 5000>>, <<14, 17>>>>, <<<<20000, 0>>, <<14, 17>>>>,
     <<<<20000, 5000>>, <<14, 12>>>>}

\* corner settings: a sell threshold below the buy threshold (both tests
\* of the power-source ladder can hold at once), and a small load on a
\* battery with a low rate
CornerSet ==
    {<<<<10000, 8000, 25000>>, <<20000, 5000>>, <<150, 60, 130>>>>,
     <<<<500, 0, 10000>>, <<10000, 500>>, <<1000, 1000, 130>>>>}

ParamSpace ==
    {MakeParams(h, l, e, <<14, 17>>, th) :
        h \in {-1, 0, MaxHours}, l \in LoadSet, e \in EssSet,
        th \in ThresholdSet}
    \cup
    {MakeParams(MaxHours, <<10000, 8000, 25000>>, x[1], x[2], th) :
        x \in OutOfDomainSet, th \in ThresholdSet}
    \cup
    {MakeParams(MaxHours, x[1], x[2], <<14, 17>>, x[3]) : x \in CornerSet}

\* the default loads over every horizon, battery and threshold setting
FairParamSpace ==
    {MakeParams(h, <<10000, 8000, 25000>>, e, <<14, 17>>, th) :
        h \in {-1, 0, 1, MaxHours}, e \in EssSet, th \in ThresholdSet}

\* the documented default configuration over whole days
DaysParamSpace ==
    {MakeParams(h, <<10000, 8000, 25000>>, <<20000, 5000>>, <<14, 17>>,
                <<70, 140, 130>>) :
        h \in {-1} \cup {24 * d : d \in 1..MaxDays}}

EmptyTable ==
    [time |-> <<>>, smp |-> <<>>, dc_total_load |-> <<>>,
     it_load_processed |-> <<>>, grid_power |-> <<>>, soc |-> <<>>,
     pue |-> <<>>, total_cost |-> <<>>, actions |-> <<>>]

\* ---------------------------------------------------------------- actions
InitWith(space, noisy) ==
    /\ params \in space
    /\ pc = "start"
    /\ t = 0
    /\ noisy_left = noisy
    /\ smp = <<>>
    /\ base_it_load = <<>>
    /\ deferrable_load_schedule = <<>>
    /\ deferred_bank = 0
    /\ soc_log = <<>>
    /\ total_cost_log = <<>>
    /\ grid_power_log = <<>>
    /\ dc_total_load_log = <<>>
    /\ pue_log = <<>>
    /\ it_load_processed_log = <<>>
    /\ actions_log = <<>>
    /\ results_df = EmptyTable
    /\ remaining_deferred_load = 0

Init == InitWith(ParamSpace, MaxNoisy)

InitDays == InitWith(DaysParamSpace, 0)

InitFair == InitWith(FairParamSpace, MaxNoisy)

\* lines 16-42: a negative sim_hours makes np.random.randn raise ValueError
GenerateSignals ==
    /\ pc = "start"
    /\ IF params.sim_hours < 0
       THEN /\ pc' = "error"
            /\ UNCHANGED <<base_it_load, deferrable_load_schedule, soc_log,
                           total_cost_log>>
       ELSE /\ pc' = "loop"
            /\ base_it_load' =
                   [i \in 1..params.sim_hours |-> BaseLoadAt(params, i - 1)]
            /\ deferrable_load_schedule' =
                   [i \in 1..params.sim_hours |-> ScheduleAt(params, i - 1)]
            /\ soc_log' = <<params.ess_capacity_kwh \div 2>>
            /\ total_cost_log' = <<0>>
    /\ UNCHANGED <<params, t, noisy_left, smp, deferred_bank, grid_power_log,
                   dc_total_load_log, pue_log, it_load_processed_log,
                   actions_log, results_df, remaining_deferred_load>>

\* lines 45-113: one iteration of the loop
HourStep ==
    /\ pc = "loop"
    /\ t < params.sim_hours
    /\ \E noise \in NoiseDraws(noisy_left) :
        LET current_smp == SmpAt(t, noise)
            current_soc == Last(soc_log)
            bank == deferred_bank + deferrable_load_schedule[t + 1]
            load == LoadPolicy(params, current_smp, bank, base_it_load[t + 1])
            current_dc_total_load == DcTotalLoad(load.processed_it_load, load.pue)
            power_needed == current_dc_total_load
            src == PowerSource(params, current_smp, current_soc, power_needed)
        IN  /\ noisy_left' = IF noise = 0 THEN noisy_left ELSE noisy_left - 1
            /\ smp' = Append(smp, current_smp)
            /\ deferred_bank' = load.deferred_bank
            /\ soc_log' = Append(soc_log, current_soc + src.soc_change)
            /\ total_cost_log' =
                   Append(total_cost_log,
                          Last(total_cost_log)
                              + CostOfHour(src.power_from_grid, current_smp))
            /\ dc_total_load_log' = Append(dc_total_load_log, current_dc_total_load)
            /\ pue_log' = Append(pue_log, load.pue)
            /\ it_load_processed_log' =
                   Append(it_load_processed_log, load.processed_it_load)
            /\ grid_power_log' = Append(grid_power_log, src.power_from_grid)
            /\ actions_log' = Append(actions_log, load.action)
    /\ t' = t + 1
    /\ UNCHANGED <<params, pc, base_it_load, deferrable_load_schedule,
                   results_df, remaining_deferred_load>>

\* lines 115-122
Return ==
    /\ pc = "loop"
    /\ t >= params.sim_hours
    /\ pc' = "returned"
    /\ results_df' =
           [time |-> [i \in 1..params.sim_hours |-> i - 1],
            smp |-> smp,
            dc_total_load |-> dc_total_load_log,
            it_load_processed |-> it_load_processed_log,
            grid_power |-> grid_power_log,
            soc |-> DropLast(soc_log),
            pue |-> pue_log,
            total_cost |-> DropLast(total_cost_log),
            actions |-> actions_log]
    /\ remaining_deferred_load' = deferred_bank
    /\ UNCHANGED <<params, t, noisy_left, smp, base_it_load,
                   deferrable_load_schedule, deferred_bank, soc_log,
                   total_cost_log, grid_power_log, dc_total_load_log, pue_log,
                   it_load_processed_log, actions_log>>

Next == GenerateSignals \/ HourStep \/ Return

Spec == Init /\ [][Next]_vars

SpecDays == InitDays /\ [][Next]_vars

\* the function runs to its end without suspending: a step that can be
\* taken is taken
SpecFair == InitFair /\ [][Next]_vars /\ WF_vars(Next)

TypeOK ==
    /\ pc \in {"start", "loop", "returned", "error"}
    /\ t \in Nat
    /\ Len(smp) = t
    /\ Len(grid_power_log) = t
\* ---------------------------------------------------------------- claims
\* hours executed so far, as indices into the logs
Hours == 1..Len(grid_power_log)

ValidEss(p) == p.ess_capacity_kwh > 0 /\ p.max_power_kw > 0

\* the configurations section 7 of the specification wants rejected
Invalid(p) ==
    \/ p.sim_hours <= 0
    \/ p.ess_capacity_kwh <= 0
    \/ p.max_power_kw <= 0
    \/ p.pue_eco < p.pue_normal

\* a configuration inside the whole documented domain
ValidConfig(p) ==
    /\ ~Invalid(p)
    /\ 0 < p.base_it_load_kw
    /\ p.base_it_load_kw <= p.max_process_power
    /\ p.deferrable_load_kw >= 0

RECURSIVE SumTo(_, _)
\* s[1] + ... + s[n]
SumTo(s, n) == IF n = 0 THEN 0 ELSE SumTo(s, n - 1) + s[n]

RECURSIVE GridCostTo(_)
\* sum of grid_power[i] * price[i] over the first n hours
GridCostTo(n) ==
    IF n = 0 THEN 0 ELSE GridCostTo(n - 1) + grid_power_log[n] * smp[n]

\* C1: with ess_capacity_kwh > 0 and max_power_kw > 0, the state of charge
\* is within [0, ess_capacity_kwh] initially and after every hour.
C1_SocBounds ==
    (ValidEss(params) /\ ValidConfig(params)) =>
        \A i \in 1..Len(soc_log) :
            0 <= soc_log[i] /\ soc_log[i] <= params.ess_capacity_kwh

\* C2: an hour leaves deferred_bank >= 0, and the amount it processes from
\* the backlog is at most the backlog after the hour's arrival.
C2_BacklogNonNegative ==
    [][t' = t + 1 =>
          /\ deferred_bank' >= 0
          /\ Last(it_load_processed_log') - base_it_load[t + 1]
                 <= deferred_bank + deferrable_load_schedule[t + 1]]_vars

\* an hour has drawn the whole backlog, which was less than the headroom
C2_Witness ==
    /\ pc = "loop"
    /\ t >= 14
    /\ deferred_bank = 0
    /\ \E i \in Hours :
           /\ it_load_processed_log[i] > base_it_load[i]
           /\ it_load_processed_log[i] < params.max_process_power

\* C3: the cumulative cost starts at 0 and every hour adds the signed
\* grid_power times the hour's price to it.
C3_CostAccounting ==
    /\ Len(total_cost_log) >= 1 => total_cost_log[1] = 0
    /\ \A i \in Hours :
           total_cost_log[i + 1] = total_cost_log[i] + grid_power_log[i] * smp[i]

\* a run has both imported and exported
C3_Witness ==
    /\ \E i \in Hours : grid_power_log[i] < 0 /\ total_cost_log[i + 1] < total_cost_log[i]
    /\ \E i \in Hours : grid_power_log[i] > 0 /\ total_cost_log[i + 1] > total_cost_log[i]

\* C4: row i of the returned table holds the SoC and the cumulative cost
\* after hour i, and the last row's cumulative cost is the sum of
\* grid_power * price over all hours.
C4_RowsAfterHour ==
    (pc = "returned" /\ ValidConfig(params)) =>
        /\ \A i \in 1..params.sim_hours :
               /\ results_df.soc[i] = soc_log[i + 1]
               /\ results_df.total_cost[i] = total_cost_log[i + 1]
        /\ Last(results_df.total_cost) = GridCostTo(params.sim_hours)

\* every price so far is below the buy and the sell threshold
AlwaysBuy ==
    \A i \in 1..Len(smp) :
        smp[i] < params.buy_threshold /\ smp[i] < params.sell_threshold

\* C5 as stated: under AlwaysBuy the SoC never decreases before it is full,
\* and every hour after it was full has grid_power = power_needed and ends
\* at capacity.
C5_ChargeThenHold ==
    (AlwaysBuy /\ ValidEss(params) /\ ValidConfig(params)) =>
        \A i \in Hours :
            IF \E j \in 1..i : soc_log[j] = params.ess_capacity_kwh
            THEN /\ grid_power_log[i] = dc_total_load_log[i]
                 /\ soc_log[i + 1] = params.ess_capacity_kwh
            ELSE soc_log[i + 1] >= soc_log[i]

\* C5 amended: under AlwaysBuy an hour that starts below capacity charges
\* min(max_power_kw, capacity - soc), so the SoC does not decrease and does
\* not pass capacity; an hour that starts at capacity (or above) takes the
\* serve branch: it discharges d = min(soc, power_needed, max_power_kw) and
\* grid_power = power_needed - d.
C5_ChargeThenServe ==
    (AlwaysBuy /\ ValidEss(params)) =>
        \A i \in Hours :
            IF soc_log[i] < params.ess_capacity_kwh
            THEN LET c == Min(params.max_power_kw,
                              params.ess_capacity_kwh - soc_log[i])
                 IN  /\ soc_log[i + 1] = soc_log[i] + c
                     /\ soc_log[i + 1] >= soc_log[i]
                     /\ soc_log[i + 1] <= params.ess_capacity_kwh
                     /\ grid_power_log[i] = dc_total_load_log[i] + c
            ELSE LET d == Min3(soc_log[i], dc_total_load_log[i],
                               params.max_power_kw)
                 IN  /\ soc_log[i + 1] = soc_log[i] - d
                     /\ grid_power_log[i] = dc_total_load_log[i] - d

\* the battery was charged up to capacity by a clamped charge, and the next
\* hour discharged it
C5_Witness ==
    /\ AlwaysBuy
    /\ ValidEss(params)
    /\ \E i \in Hours :
           /\ i >= 2
           /\ soc_log[i - 1] < params.ess_capacity_kwh
           /\ soc_log[i - 1] + params.max_power_kw > params.ess_capacity_kwh
           /\ soc_log[i] = params.ess_capacity_kwh
           /\ soc_log[i + 1] < params.ess_capacity_kwh
           /\ grid_power_log[i] < dc_total_load_log[i]

\* C6: with deferrable_load_kw = 0 and 0 < base_it_load_kw <=
\* max_process_power, deferred_bank is 0 after every hour and every hour
\* processes exactly its base load.
C6_ZeroFlexibleLoad ==
    (/\ params.deferrable_load_kw = 0
     /\ 0 < params.base_it_load_kw
     /\ params.base_it_load_kw <= params.max_process_power
     /\ ValidConfig(params)) =>
        /\ deferred_bank = 0
        /\ \A i \in Hours : it_load_processed_log[i] = base_it_load[i]

\* C7: the flexible arrival of hour h is deferrable_load_kw when h mod 24 is
\* in 13..16 and 0 otherwise, on every simulated day.
C7_ScheduleEveryDay ==
    \A i \in 1..Len(deferrable_load_schedule) :
        deferrable_load_schedule[i] =
            IF ((i - 1) % 24) \in 13..16 THEN params.deferrable_load_kw ELSE 0

\* C8: a call with an invalid configuration executes no hourly step and
\* returns no table.
C8_InvalidRejected ==
    Invalid(params) => (pc \in {"start", "error"} /\ t = 0)

\* C9: the PUE applied in an hour is pue_eco when the hour's price is above
\* cost_saving_threshold and pue_normal otherwise.
C9_PueSelection ==
    \A i \in Hours :
        pue_log[i] = IF smp[i] > params.cost_saving_threshold
                     THEN params.pue_eco ELSE params.pue_normal

\* both PUEs were applied in one run, the normal one with a backlog waiting
\* and at a price below the buy threshold
C9_Witness ==
    /\ params.pue_eco # params.pue_normal
    /\ \E i \in Hours : pue_log[i] = params.pue_eco
    /\ \E i \in Hours :
           /\ pue_log[i] = params.pue_normal
           /\ actions_log[i] = "high_performance"

\* C10: with cost_saving_threshold = 0 every hour processes exactly its base
\* load, deferred_bank never decreases, and after hour h it is the sum of
\* the flexible arrivals of hours 0..h.
C10_PureCostSaving ==
    [][(params.cost_saving_threshold = 0 /\ t' = t + 1) =>
          /\ Last(it_load_processed_log') = base_it_load[t + 1]
          /\ deferred_bank' >= deferred_bank
          /\ deferred_bank' = SumTo(deferrable_load_schedule, t + 1)]_vars

\* a backlog has built up under cost_saving_threshold = 0, through an hour
\* whose price was held by the floor
C10_Witness ==
    /\ params.cost_saving_threshold = 0
    /\ t >= 15
    /\ deferred_bank = 2 * params.deferrable_load_kw
    /\ deferred_bank > 0
    /\ \E i \in Hours : smp[i] = SmpFloor
\* the returned table has n rows: every column has length n
Rows(df, n) ==
    /\ Len(df.time) = n
    /\ Len(df.smp) = n
    /\ Len(df.dc_total_load) = n
    /\ Len(df.it_load_processed) = n
    /\ Len(df.grid_power) = n
    /\ Len(df.soc) = n
    /\ Len(df.pue) = n
    /\ Len(df.total_cost) = n
    /\ Len(df.actions) = n

\* C11: a run over a horizon H >= 0 terminates, after exactly H hourly
\* steps taken in increasing hour order; the table has exactly H rows in
\* hour order and the returned scalar is deferred_bank after the last step.
C11_TerminatesWithHRows ==
    /\ [](pc = "returned" =>
              /\ t = params.sim_hours
              /\ Len(grid_power_log) = params.sim_hours
              /\ Rows(results_df, params.sim_hours)
              /\ \A i \in 1..params.sim_hours : results_df.time[i] = i - 1
              /\ remaining_deferred_load = deferred_bank)
    /\ [][/\ t' \in {t, t + 1}
          /\ t' = t + 1 => (t < params.sim_hours /\ Len(grid_power_log') = t + 1)
          /\ pc = "returned" => UNCHANGED vars]_vars
    /\ [](params.sim_hours >= 0 => <>(pc = "returned"))

\* a run of MaxHours hours has returned its table and a backlog
C11_Witness ==
    /\ pc = "returned"
    /\ params.sim_hours = MaxHours
    /\ t = MaxHours
    /\ Len(results_df.soc) = MaxHours
    /\ remaining_deferred_load > 0
\* C12: in every hour the total DC draw, which is also the power_needed of
\* the power-source decision (grid_power minus the change of SoC), equals
\* processed_it_load times the applied PUE (PUE in tenths).
C12_Conservation ==
    \A i \in Hours :
        /\ 10 * dc_total_load_log[i] = it_load_processed_log[i] * pue_log[i]
        /\ 10 * (grid_power_log[i] - (soc_log[i + 1] - soc_log[i]))
               = it_load_processed_log[i] * pue_log[i]

\* one run has applied the economy PUE to a base load and the normal PUE
\* to a base load plus backlog
C12_Witness ==
    /\ \E i \in Hours :
           /\ pue_log[i] = params.pue_eco
           /\ pue_log[i] > 10
           /\ dc_total_load_log[i] > it_load_processed_log[i]
    /\ \E i \in Hours :
           /\ pue_log[i] = params.pue_normal
           /\ pue_log[i] # params.pue_eco
           /\ it_load_processed_log[i] > base_it_load[i]
C16_RateLimit ==
    (ValidEss(params) /\ ValidConfig(params)) =>
        \A i \in Hours :
            /\ soc_log[i + 1] - soc_log[i] <= params.max_power_kw
            /\ soc_log[i] - soc_log[i + 1] <= params.max_power_kw
RECURSIVE DrawnTo(_)
\* sum of processed_it_load - base_load over the first n hours
DrawnTo(n) ==
    IF n = 0 THEN 0
    ELSE DrawnTo(n - 1) + it_load_processed_log[n] - base_it_load[n]

\* C17: after every hour deferred_bank is the flexible arrivals so far minus
\* the flexible work processed so far (processed_it_load - base_load), the
\* returned backlog plus the work processed is the work that arrived, and
\* deferred_bank never exceeds the arrivals so far.
C17_FlexibleWorkConserved ==
    ValidConfig(params) =>
        /\ deferred_bank = SumTo(deferrable_load_schedule, t) - DrawnTo(t)
        /\ pc = "returned" =>
               remaining_deferred_load + DrawnTo(t)
                   = SumTo(deferrable_load_schedule, params.sim_hours)
        /\ deferred_bank <= SumTo(deferrable_load_schedule, t)
\* C18: with 0 < base_it_load_kw <= max_process_power, processed_it_load is
\* at most max_process_power in every hour, whatever the load-processing
\* mode.
C18_ProcessingLimit ==
    ValidConfig(params) =>
        \A i \in Hours : it_load_processed_log[i] <= params.max_process_power
====
